---- MODULE Spec2Model ----
(***************************************************************************)
(* Batch gradient descent for linear regression (Univariate_LR,            *)
(* General_LR, General_LR_reg) and logistic regression (Logistic_R).       *)
(*                                                                         *)
(* Numbers are exact rationals <<numerator, denominator>> in lowest terms  *)
(* with a positive denominator, so the arithmetic of the stage functions   *)
(* is the arithmetic of the reals (no rounding, no Inf/NaN).               *)
(*                                                                         *)
(* A dataset x is a record [ndim, rows]: ndim is len(x.shape) and rows is  *)
(* the m rows of the array; a 1-D array of m scalars is kept as m rows of  *)
(* one entry, so x[i] of the source is rows[i][1].  A weight is kept as    *)
(* the sequence of its components (one component for a scalar or 0-d       *)
(* weight, n components for an (n,) array).                                *)
(*                                                                         *)
(* The cost history is kept run-length encoded: a run [cost, times] stands *)
(* for times consecutive entries equal to cost.  CostAppend, CostLen and   *)
(* CostLast are append, len and [-1] of the list it stands for.            *)
(***************************************************************************)
EXTENDS Integers, Sequences, FiniteSets

(***************************************************************************)
(* Bounds of the model.                                                    *)
(***************************************************************************)
MaxM == 2          \* at most MaxM examples
MaxN == 2          \* at most MaxN features
MaxIters == 2      \* num_iters is drawn from 0..MaxIters
MaxLambda == 2     \* lambda_ of a stage-function call is drawn from 0..MaxLambda
LongBack == 2      \* SpecLong picks a run up LongBack passes before the cap
LongOver == 2      \* SpecLong runs up to LongOver passes beyond the cap

(***************************************************************************)
(* Exact rational arithmetic.                                              *)
(***************************************************************************)
Abs(a) == IF a < 0 THEN -a ELSE a

RECURSIVE GCD(_, _)
GCD(a, b) == IF b = 0 THEN a ELSE GCD(b, a % b)

Q(n, d) ==
    LET s == IF d < 0 THEN -1 ELSE 1
        g == GCD(Abs(n), Abs(d))
    IN  <<(s * n) \div g, (s * d) \div g>>

R(k) == <<k, 1>>

\* the sum over the least common denominator, the product after cancelling
\* across, so that no intermediate value is larger than it has to be
Lcm(a, b) == (a \div GCD(a, b)) * b

RAdd(p, q) ==
    LET l == Lcm(p[2], q[2])
    IN  Q(p[1] * (l \div p[2]) + q[1] * (l \div q[2]), l)

RSub(p, q) ==
    LET l == Lcm(p[2], q[2])
    IN  Q(p[1] * (l \div p[2]) - q[1] * (l \div q[2]), l)

RMul(p, q) ==
    LET g1 == GCD(Abs(p[1]), q[2])
        g2 == GCD(Abs(q[1]), p[2])
    IN  Q((p[1] \div g1) * (q[1] \div g2), (p[2] \div g2) * (q[2] \div g1))

RDiv(p, q) == RMul(p, IF q[1] < 0 THEN <<-q[2], -q[1]>> ELSE <<q[2], q[1]>>)
RNeg(p) == <<-p[1], p[2]>>

\* x.shape[0] and x.shape[1]
Rows(x) == Len(x.rows)
Cols(x) == Len(x.rows[1])

\* np.dot of one row of x with the weight
RECURSIVE DotRow(_, _, _)
DotRow(row, w, j) ==
    IF j = 0 THEN R(0)
    ELSE RAdd(DotRow(row, w, j - 1), RMul(R(row[j]), w[j]))

\* the array with the entries f[1], ..., f[k], each computed once
RECURSIVE Tup(_, _)
Tup(f, k) == IF k = 0 THEN <<>> ELSE Append(Tup(f, k - 1), f[k])

\* for i in range(m): acc += v[i]
RECURSIVE SumTo(_, _)
SumTo(v, k) == IF k = 0 THEN R(0) ELSE RAdd(SumTo(v, k - 1), v[k])

(***************************************************************************)
(* Model functions.  compute_model is the same in the three linear files;  *)
(* alt_model is an alternate prediction stage a caller injects (a model    *)
(* through the origin).                                                    *)
(***************************************************************************)
compute_model(x, w, b) ==
    Tup([i \in 1..Rows(x) |-> RAdd(DotRow(x.rows[i], w, Cols(x)), b)], Rows(x))

alt_model(x, w, b) ==
    Tup([i \in 1..Rows(x) |-> DotRow(x.rows[i], w, Cols(x))], Rows(x))

ApplyModel(model, x, w, b) ==
    IF model = "compute_model" THEN compute_model(x, w, b) ELSE alt_model(x, w, b)

\* error = (f_wb - y) ** 2
SquaredError(f_wb, y) ==
    Tup([i \in 1..Len(y) |-> RMul(RSub(f_wb[i], R(y[i])), RSub(f_wb[i], R(y[i])))], Len(y))

\* err = f_wb - y
Residual(f_wb, y) == Tup([i \in 1..Len(y) |-> RSub(f_wb[i], R(y[i]))], Len(y))

\* for i in range(m): dj_dw += err[i] * x[i]   (scalar accumulator)
RECURSIVE ScalarAcc(_, _, _)
ScalarAcc(x, err, k) ==
    IF k = 0 THEN R(0)
    ELSE RAdd(ScalarAcc(x, err, k - 1), RMul(err[k], R(x.rows[k][1])))

(***************************************************************************)
(* Univariate_LR                                                           *)
(***************************************************************************)
Univariate_compute_cost(x, y, w, b, model) ==
    LET m == Rows(x)
        error == SquaredError(ApplyModel(model, x, w, b), y)
    IN  RDiv(SumTo(error, m), R(2 * m))

Univariate_compute_gradient(x, y, w, b, model) ==
    LET m == Rows(x)
        err == Residual(ApplyModel(model, x, w, b), y)
    IN  [dj_dw |-> <<RDiv(ScalarAcc(x, err, m), R(m))>>,
         dj_db |-> RDiv(SumTo(err, m), R(m))]

(***************************************************************************)
(* General_LR                                                              *)
(***************************************************************************)
General_compute_cost(x, y, w, b, model) ==
    LET m == Rows(x)
        error == SquaredError(ApplyModel(model, x, w, b), y)
    IN  RDiv(SumTo(error, m), R(2 * m))

\* for i in range(m): for j in range(n): dj_dw += err[i] * x[i, j]
\* dj_dw is the (n,) array, so the scalar is added to every component.
\* k counts the (i, j) pairs done, in row-major order.
RowOf(k, n) == ((k - 1) \div n) + 1
ColOf(k, n) == ((k - 1) % n) + 1
Feature(x, k) == R(x.rows[RowOf(k, Cols(x))][ColOf(k, Cols(x))])
Zeros(n) == Tup([c \in 1..n |-> R(0)], n)
AddToAll(dj_dw, d) == Tup([c \in DOMAIN dj_dw |-> RAdd(dj_dw[c], d)], Len(dj_dw))

RECURSIVE General_dw_acc(_, _, _)
General_dw_acc(x, err, k) ==
    IF k = 0 THEN Zeros(Cols(x))
    ELSE AddToAll(General_dw_acc(x, err, k - 1),
                  RMul(err[RowOf(k, Cols(x))], Feature(x, k)))

General_compute_gradient(x, y, w, b, model) ==
    LET m == Rows(x)
        err == Residual(ApplyModel(model, x, w, b), y)
    IN  IF x.ndim = 1
        THEN [dj_dw |-> <<RDiv(ScalarAcc(x, err, m), R(m))>>,
              dj_db |-> RDiv(SumTo(err, m), R(m))]
        ELSE LET n == Cols(x)
                 acc == General_dw_acc(x, err, m * n)
             IN  [dj_dw |-> Tup([c \in 1..n |-> RDiv(acc[c], R(m))], n),
                  dj_db |-> RDiv(SumTo(err, m), R(m))]

(***************************************************************************)
(* General_LR_reg                                                          *)
(***************************************************************************)
\* for j in range(n): reg_cost += (w[j] ** 2)
RECURSIVE SumSquares(_, _)
SumSquares(w, j) ==
    IF j = 0 THEN R(0) ELSE RAdd(SumSquares(w, j - 1), RMul(w[j], w[j]))

\* reg_cost without the lambda_ / 2m scaling of the 2-D branch; C9 fails with it
reg_cost_mut(x, w, lambda_) ==
    IF x.ndim = 1
    THEN RMul(RDiv(lambda_, R(2 * Rows(x))), RMul(w[1], w[1]))
    ELSE SumSquares(w, Cols(x))

\* reg_cost: (lambda_ / (2 * m)) * (w ** 2), or the sum of w[j] ** 2 scaled after
reg_cost(x, w, lambda_) ==
    IF x.ndim = 1
    THEN RMul(RDiv(lambda_, R(2 * Rows(x))), RMul(w[1], w[1]))
    ELSE RMul(SumSquares(w, Cols(x)), RDiv(lambda_, R(2 * Rows(x))))

compute_cost_reg(x, y, w, b, model, lambda_) ==
    LET m == Rows(x)
        error == SquaredError(ApplyModel(model, x, w, b), y)
        cost == RDiv(SumTo(error, m), R(2 * m))
    IN  RAdd(cost, reg_cost(x, w, lambda_))

\* for i in range(m): for j in range(n): dj_dw[j] += err[i] * x[i, j]
AddToOne(dj_dw, j, d) == [dj_dw EXCEPT ![j] = RAdd(@, d)]

RECURSIVE Reg_dw_acc(_, _, _)
Reg_dw_acc(x, err, k) ==
    IF k = 0 THEN Zeros(Cols(x))
    ELSE AddToOne(Reg_dw_acc(x, err, k - 1), ColOf(k, Cols(x)),
                  RMul(err[RowOf(k, Cols(x))], Feature(x, k)))

compute_gradient_reg(x, y, w, b, model, lambda_) ==
    LET m == Rows(x)
        err == Residual(ApplyModel(model, x, w, b), y)
    IN  IF x.ndim = 1
        THEN [dj_dw |-> <<RAdd(RDiv(ScalarAcc(x, err, m), R(m)),
                               RMul(RDiv(lambda_, R(m)), w[1]))>>,
              dj_db |-> RDiv(SumTo(err, m), R(m))]
        ELSE LET n == Cols(x)
                 acc == Reg_dw_acc(x, err, m * n)
             IN  [dj_dw |-> Tup([c \in 1..n |->
                                    RAdd(RDiv(acc[c], R(m)),
                                         RMul(RDiv(lambda_, R(m)), w[c]))], n),
                  dj_db |-> RDiv(SumTo(err, m), R(m))]

(***************************************************************************)
(* Logistic_R.  np.exp and np.log have no rational value.  Exp and Log are *)
(* their base-2 step forms, Exp(t) = 2^floor(t) and Log(p) = floor(log2 p),*)
(* which keep what the code relies on: Exp is positive and non-decreasing  *)
(* with Exp(0) = 1, Log is defined exactly on the positive numbers, and    *)
(* the sigmoid built from Exp is strictly between 0 and 1 and is 1/2 at 0. *)
(***************************************************************************)
Floor(q) == q[1] \div q[2]

RECURSIVE Pow2(_)
Pow2(k) == IF k = 0 THEN 1 ELSE 2 * Pow2(k - 1)

Exp(t) == IF Floor(t) >= 0 THEN <<Pow2(Floor(t)), 1>> ELSE <<1, Pow2(-Floor(t))>>

\* the largest k with 2^k <= q, for q >= 1
RECURSIVE Log2Down(_, _)
Log2Down(q, k) == IF 2 * Pow2(k) * q[2] > q[1] THEN k ELSE Log2Down(q, k + 1)

\* the smallest k with q * 2^k >= 1, for 0 < q < 1
RECURSIVE Log2Up(_, _)
Log2Up(q, k) == IF Pow2(k) * q[1] >= q[2] THEN k ELSE Log2Up(q, k + 1)

Log(p) == IF p[1] >= p[2] THEN R(Log2Down(p, 0)) ELSE R(-Log2Up(p, 1))

zeta(x, w, b) ==
    Tup([i \in 1..Rows(x) |-> RAdd(DotRow(x.rows[i], w, Cols(x)), b)], Rows(x))

\* an alternate raw-score stage a caller injects as Z
alt_zeta(x, w, b) ==
    Tup([i \in 1..Rows(x) |-> DotRow(x.rows[i], w, Cols(x))], Rows(x))

ApplyZ(Z, x, w, b) == IF Z = "zeta" THEN zeta(x, w, b) ELSE alt_zeta(x, w, b)

sigmoid(x, w, b, Z) ==
    LET z == ApplyZ(Z, x, w, b)
    IN  Tup([i \in 1..Rows(x) |-> RDiv(R(1), RAdd(R(1), Exp(RNeg(z[i]))))], Rows(x))

\* an alternate activation stage a caller injects as S
alt_sigmoid(x, w, b) == sigmoid(x, w, b, "alt_zeta")

\* S(x, w, b): the callee never passes Z, so sigmoid runs with its default
ApplyS(S, x, w, b) ==
    IF S = "sigmoid" THEN sigmoid(x, w, b, "zeta") ELSE alt_sigmoid(x, w, b)

\* the prediction stages a call S(x, w, b) evaluates
StagesOfS(S) == IF S = "sigmoid" THEN {"sigmoid", "zeta"} ELSE {"alt_sigmoid", "alt_zeta"}

\* for i in range(m): cost += (-y[i] * log(s[i])) - ((1 - y[i]) * log(1 - s[i]))
RECURSIVE LogLossAcc(_, _, _)
LogLossAcc(s, y, k) ==
    IF k = 0 THEN R(0)
    ELSE RAdd(LogLossAcc(s, y, k - 1),
              RSub(RMul(R(-y[k]), Log(s[k])),
                   RMul(R(1 - y[k]), Log(RSub(R(1), s[k])))))

compute_cost_logistic(x, y, w, b, S) ==
    LET m == Rows(x)
        s == ApplyS(S, x, w, b)
    IN  RDiv(LogLossAcc(s, y, m), R(m))

\* for i in range(m): for j in range(n): dj_dw[j] += err[i] * X[i, j]
RECURSIVE Logistic_dw_acc(_, _, _)
Logistic_dw_acc(x, err, k) ==
    IF k = 0 THEN Zeros(Cols(x))
    ELSE AddToOne(Logistic_dw_acc(x, err, k - 1), ColOf(k, Cols(x)),
                  RMul(err[RowOf(k, Cols(x))], Feature(x, k)))

compute_gradient_logistic(x, y, w, b, S) ==
    LET m == Rows(x)
        n == Cols(x)
        err == Residual(ApplyS(S, x, w, b), y)
        acc == Logistic_dw_acc(x, err, m * n)
    IN  [dj_dw |-> Tup([c \in 1..n |-> RDiv(acc[c], R(m))], n),
         dj_db |-> RDiv(SumTo(err, m), R(m))]

(***************************************************************************)
(* State of one call.  A Python value that holds a weight is a record      *)
(* [id, v]: id = 0 is an immutable scalar whose value is v; id > 0 is the  *)
(* ndarray object with that identity, whose contents are heap[id].         *)
(***************************************************************************)
VARIABLES
    variant,      \* which file's optimizer is called, or "stage" for a stage-function call
    x, y,         \* the dataset and its targets
    w_in, b_in,   \* the caller's initial weight (a Python value) and bias
    alpha,        \* learning rate
    num_iters,    \* iteration count
    model,        \* the model function injected into a linear optimizer or stage function
    Z, S,         \* the stages injected into the logistic optimizer
    lambda_,      \* regularization strength passed to a stage function
    heap,         \* contents of the ndarray objects
    w, b,         \* the optimizer's local weight (a Python value) and bias
    i,            \* the loop variable: the index of the next pass
    ceil,         \* the reporting cadence
    J_history,    \* cost history, run-length encoded
    p_history,    \* parameter history: <<weight value, bias>> per pass
    stdout,       \* the progress lines written: <<iteration, cost>>
    evaluated,    \* the prediction stages evaluated so far in the run
    w_at_call,    \* the contents of the caller's weight when the call was made
    ret,          \* what a stage-function call returned
    pc            \* "ready", "loop", "returned", "raised" (ZeroDivisionError), "called"

vars == <<variant, x, y, w_in, b_in, alpha, num_iters, model, Z, S, lambda_, heap,
          w, b, i, ceil, J_history, p_history, stdout, evaluated, w_at_call, ret, pc>>

inputs == <<variant, x, y, w_in, b_in, alpha, num_iters, model, Z, S, lambda_, w_at_call>>

LinearVariants == {"Univariate_LR", "General_LR", "General_LR_reg"}

\* the contents of a weight value
Deref(val) == IF val.id = 0 THEN val.v ELSE heap[val.id]

(***************************************************************************)
(* The inputs a caller supplies.                                           *)
(***************************************************************************)
\* an m x n array of binary features: they alternate from s, row by row
Dataset(ndim, m, n, s) ==
    [ndim |-> ndim,
     rows |-> Tup([r \in 1..m |->
                      Tup([c \in 1..n |-> (s + (r - 1) * n + (c - 1)) % 2], n)], m)]

\* m binary targets alternating from t
Targets(m, t) == Tup([r \in 1..m |-> (t + r - 1) % 2], m)

\* the weight components c, c + 1, ...
Weight(n, c) == Tup([j \in 1..n |-> R(c + j - 1)], n)

InputsInit(vr, nd, m, n, s, t, c, bb, a, k, md, zz, ss, kind, lam) ==
    /\ variant = vr
    /\ x = Dataset(nd, m, n, s)
    /\ y = Targets(m, t)
    /\ w_in = IF kind = "scalar" THEN [id |-> 0, v |-> Weight(n, c)]
                                 ELSE [id |-> 1, v |-> <<>>]
    /\ w_at_call = Weight(n, c)
    /\ b_in = R(bb)
    /\ alpha = Q(a, 2)
    /\ num_iters = k
    /\ model = md
    /\ Z = zz
    /\ S = ss
    /\ lambda_ = R(lam)

\* the locals of a call that has not yet run its first statement; the only
\* ndarray object is the caller's weight, when it is one
LocalsInit ==
    /\ heap = <<IF w_in.id = 1 THEN w_at_call ELSE <<>>, <<>>>>
    /\ w = w_in
    /\ b = b_in
    /\ i = 0
    /\ ceil = 0
    /\ J_history = <<>>
    /\ p_history = <<>>
    /\ stdout = <<>>
    /\ evaluated = {}
    /\ ret = [fn |-> "none"]
    /\ pc = "ready"

\* The learning rate is 0 or 1/2.  A 1-D dataset has scalar features and a
\* scalar or 0-d ndarray weight; a 2-D dataset has an (n,) ndarray weight.
\* Univariate_LR takes 1-D data, Logistic_R 2-D data.
Init ==
    \E vr \in LinearVariants \cup {"Logistic_R"}, nd \in 1..2,
       m \in 1..MaxM, n \in 1..MaxN, s \in 0..1, t \in 0..1, c \in 0..1,
       bb \in 0..1, a \in 0..1, k \in 0..MaxIters,
       md \in {"compute_model", "alt_model"},
       zz \in {"zeta", "alt_zeta"}, ss \in {"sigmoid", "alt_sigmoid"},
       kind \in {"scalar", "ndarray"} :
        /\ nd = 1 => n = 1
        /\ nd = 2 => kind = "ndarray"
        /\ vr = "Univariate_LR" => nd = 1
        /\ vr = "Logistic_R" => nd = 2 /\ md = "compute_model"
        /\ vr \in LinearVariants => zz = "zeta" /\ ss = "sigmoid"
        /\ InputsInit(vr, nd, m, n, s, t, c, bb, a, k, md, zz, ss, kind, 1)
        /\ LocalsInit

(***************************************************************************)
(* Steps shared by the optimizer loops.                                    *)
(***************************************************************************)
\* J_history.append(c)
CostAppend(h, c) ==
    IF Len(h) > 0 /\ h[Len(h)].cost = c
    THEN [h EXCEPT ![Len(h)].times = @ + 1]
    ELSE Append(h, [cost |-> c, times |-> 1])

\* len(J_history)
RECURSIVE RunsLen(_, _)
RunsLen(h, k) == IF k = 0 THEN 0 ELSE RunsLen(h, k - 1) + h[k].times

CostLen(h) == RunsLen(h, Len(h))

\* J_history[-1]
CostLast(h) == h[Len(h)].cost

\* math.ceil(num_iters / 10)
Cadence(n) == (n + 9) \div 10

\* a step that ignores the learning rate; C7 fails with it
Step_mut(p, a, g) == RSub(p, g)

\* p -= alpha * g
Step(p, a, g) == RSub(p, RMul(a, g))

\* a loop of num_iters passes; C4 fails with it
LinearLoopCount_mut(n) == n

\* range(num_iters + 1)
LinearLoopCount(n) == n + 1

\* copy.deepcopy(val): an ndarray is copied into a fresh object, a scalar is itself
DeepcopyValue(val) == IF val.id = 0 THEN val ELSE [id |-> 2, v |-> <<>>]
DeepcopyHeap(val) == IF val.id = 0 THEN heap ELSE <<heap[1], heap[val.id]>>

\* w -= alpha * dj_dw: an ndarray is updated in place, a scalar name is rebound
RECURSIVE StepEach(_, _, _)
StepEach(v, d, k) ==
    IF k = 0 THEN <<>> ELSE Append(StepEach(v, d, k - 1), Step(v[k], alpha, d[k]))

NewW(g) == StepEach(Deref(w), g.dj_dw, Len(Deref(w)))
NewB(g) == Step(b, alpha, g.dj_db)
SubValue(val, contents) == IF val.id = 0 THEN [id |-> 0, v |-> contents] ELSE val
SubHeap(val, contents) ==
    IF val.id = 0 THEN heap
    ELSE IF val.id = 1 THEN <<contents, heap[2]>> ELSE <<heap[1], contents>>

\* the body of the for loop of a linear optimizer, given the gradient and the
\* cost at the updated parameters
LinearPassBody(g, cost_f) ==
    /\ b' = NewB(g)
    /\ w' = SubValue(w, NewW(g))
    /\ heap' = SubHeap(w, NewW(g))
    /\ J_history' = CostAppend(J_history, cost_f)
    /\ p_history' = Append(p_history, <<SubValue(w, NewW(g)), NewB(g)>>)
    /\ evaluated' = evaluated \cup {model}
    /\ IF ceil = 0
       THEN /\ pc' = "raised"
            /\ UNCHANGED <<i, stdout>>
       ELSE /\ stdout' = IF i % ceil = 0 THEN Append(stdout, <<i, cost_f>>) ELSE stdout
            /\ i' = i + 1
            /\ pc' = "loop"
    /\ UNCHANGED <<inputs, ceil, ret>>

LinearReturn ==
    /\ pc = "loop"
    /\ i >= LinearLoopCount(num_iters)
    /\ pc' = "returned"
    /\ UNCHANGED <<inputs, heap, w, b, i, ceil, J_history, p_history, stdout, evaluated, ret>>

(***************************************************************************)
(* Univariate_LR.gradient_descent                                          *)
(***************************************************************************)
Univariate_enter ==
    /\ variant = "Univariate_LR" /\ pc = "ready"
    /\ J_history' = <<>>
    /\ p_history' = <<>>
    /\ b' = b_in
    /\ w' = w_in
    /\ ceil' = Cadence(num_iters)
    /\ i' = 0
    /\ pc' = "loop"
    /\ UNCHANGED <<inputs, heap, stdout, evaluated, ret>>

Univariate_pass ==
    /\ variant = "Univariate_LR" /\ pc = "loop"
    /\ i < LinearLoopCount(num_iters)
    /\ \E g \in {Univariate_compute_gradient(x, y, Deref(w), b, model)} :
        \E cost_f \in {Univariate_compute_cost(x, y, NewW(g), NewB(g), model)} :
            LinearPassBody(g, cost_f)

Univariate_return == variant = "Univariate_LR" /\ LinearReturn

(***************************************************************************)
(* General_LR.gradient_descent                                             *)
(***************************************************************************)
General_enter ==
    /\ variant = "General_LR" /\ pc = "ready"
    /\ J_history' = <<>>
    /\ p_history' = <<>>
    /\ b' = b_in
    /\ w' = DeepcopyValue(w_in)
    /\ heap' = DeepcopyHeap(w_in)
    /\ ceil' = Cadence(num_iters)
    /\ i' = 0
    /\ pc' = "loop"
    /\ UNCHANGED <<inputs, stdout, evaluated, ret>>

General_pass ==
    /\ variant = "General_LR" /\ pc = "loop"
    /\ i < LinearLoopCount(num_iters)
    /\ \E g \in {General_compute_gradient(x, y, Deref(w), b, model)} :
        \E cost_f \in {General_compute_cost(x, y, NewW(g), NewB(g), model)} :
            LinearPassBody(g, cost_f)

General_return == variant = "General_LR" /\ LinearReturn

(***************************************************************************)
(* General_LR_reg.gradient_descent_reg: the stage functions are called     *)
(* without lambda_, so they run with their default lambda_ = 1.            *)
(***************************************************************************)
Reg_enter ==
    /\ variant = "General_LR_reg" /\ pc = "ready"
    /\ J_history' = <<>>
    /\ p_history' = <<>>
    /\ b' = b_in
    /\ w' = DeepcopyValue(w_in)
    /\ heap' = DeepcopyHeap(w_in)
    /\ ceil' = Cadence(num_iters)
    /\ i' = 0
    /\ pc' = "loop"
    /\ UNCHANGED <<inputs, stdout, evaluated, ret>>

Reg_pass ==
    /\ variant = "General_LR_reg" /\ pc = "loop"
    /\ i < LinearLoopCount(num_iters)
    /\ \E g \in {compute_gradient_reg(x, y, Deref(w), b, model, R(1))} :
        \E cost_f \in {compute_cost_reg(x, y, NewW(g), NewB(g), model, R(1))} :
            LinearPassBody(g, cost_f)

Reg_return == variant = "General_LR_reg" /\ LinearReturn

(***************************************************************************)
(* Logistic_R.gradient_descent: G and C are called without Z and S, so     *)
(* they run with their default S = sigmoid, which runs with Z = zeta.      *)
(***************************************************************************)
HistoryCap == 100000

\* a loop that keeps every cost; C5_CostHistoryCapped fails with it
KeepsCost_mut(k) == TRUE

\* if i < 100000
KeepsCost(k) == k < HistoryCap

Logistic_enter ==
    /\ variant = "Logistic_R" /\ pc = "ready"
    /\ J_history' = <<>>
    /\ w' = DeepcopyValue(w_in)
    /\ heap' = DeepcopyHeap(w_in)
    /\ b' = b_in
    /\ ceil' = Cadence(num_iters)
    /\ i' = 0
    /\ pc' = "loop"
    /\ UNCHANGED <<inputs, p_history, stdout, evaluated, ret>>

\* the body of the for loop, given the gradient and the cost at the updated
\* parameters
LogisticPassBody(g, cost) ==
    /\ w' = SubValue(w, NewW(g))
    /\ heap' = SubHeap(w, NewW(g))
    /\ b' = NewB(g)
    /\ J_history' = IF KeepsCost(i) THEN CostAppend(J_history, cost) ELSE J_history
    /\ evaluated' = evaluated \cup StagesOfS("sigmoid")
    /\ IF ceil = 0
       THEN /\ pc' = "raised"
            /\ UNCHANGED <<i, stdout>>
       ELSE /\ stdout' = IF i % ceil = 0
                         THEN Append(stdout, <<i, IF KeepsCost(i) THEN cost
                                                  ELSE CostLast(J_history)>>)
                         ELSE stdout
            /\ i' = i + 1
            /\ pc' = "loop"
    /\ UNCHANGED <<inputs, ceil, p_history, ret>>

Logistic_pass ==
    /\ variant = "Logistic_R" /\ pc = "loop"
    /\ i < num_iters
    /\ \E g \in {compute_gradient_logistic(x, y, Deref(w), b, "sigmoid")} :
        \E cost \in {compute_cost_logistic(x, y, NewW(g), NewB(g), "sigmoid")} :
            LogisticPassBody(g, cost)

Logistic_return ==
    /\ variant = "Logistic_R" /\ pc = "loop"
    /\ i >= num_iters
    /\ pc' = "returned"
    /\ UNCHANGED <<inputs, heap, w, b, i, ceil, J_history, p_history, stdout, evaluated, ret>>

Next ==
    \/ Univariate_enter \/ Univariate_pass \/ Univariate_return
    \/ General_enter \/ General_pass \/ General_return
    \/ Reg_enter \/ Reg_pass \/ Reg_return
    \/ Logistic_enter \/ Logistic_pass \/ Logistic_return

Spec == Init /\ [][Next]_vars

(***************************************************************************)
(* Direct calls of the stage functions of General_LR and General_LR_reg.   *)
(***************************************************************************)
FnInit ==
    \E nd \in 1..2, m \in 1..MaxM, n \in 1..MaxN, s \in 0..1, t \in 0..1,
       c \in 0..1, bb \in 0..1, md \in {"compute_model", "alt_model"},
       lam \in 0..MaxLambda :
        /\ nd = 1 => n = 1
        /\ InputsInit("stage", nd, m, n, s, t, c, bb, 0, 0, md, "zeta", "sigmoid",
                      IF nd = 1 THEN "scalar" ELSE "ndarray", lam)
        /\ LocalsInit

Returns(fn, out) ==
    /\ pc = "ready"
    /\ ret' = [fn |-> fn, out |-> out]
    /\ pc' = "called"
    /\ UNCHANGED <<inputs, heap, w, b, i, ceil, J_history, p_history, stdout, evaluated>>

Call_General_compute_cost ==
    variant = "stage" /\ Returns("compute_cost", General_compute_cost(x, y, Deref(w_in), b_in, model))

Call_General_compute_gradient ==
    variant = "stage" /\ Returns("compute_gradient", General_compute_gradient(x, y, Deref(w_in), b_in, model))

Call_compute_cost_reg ==
    variant = "stage" /\ Returns("compute_cost_reg", compute_cost_reg(x, y, Deref(w_in), b_in, model, lambda_))

Call_compute_gradient_reg ==
    variant = "stage" /\ Returns("compute_gradient_reg", compute_gradient_reg(x, y, Deref(w_in), b_in, model, lambda_))

FnNext ==
    \/ Call_General_compute_cost
    \/ Call_General_compute_gradient
    \/ Call_compute_cost_reg
    \/ Call_compute_gradient_reg

SpecFn == FnInit /\ [][FnNext]_vars

(***************************************************************************)
(* Logistic runs long enough to meet the cost-history cap.  With a zero    *)
(* learning rate every pass leaves the parameters where they were, so the  *)
(* state after p passes has a closed form, LogisticAfter(p): the history   *)
(* is min(p, HistoryCap) copies of the cost at the initial parameters.     *)
(* ZeroRateLogisticShape states that form for the runs of Spec; SpecLong   *)
(* takes up such a run LongBack passes before the cap.                     *)
(***************************************************************************)
Min(a, c) == IF a < c THEN a ELSE c

LogisticAfter(p) ==
    \E cost0 \in {compute_cost_logistic(x, y, w_at_call, b_in, "sigmoid")} :
        /\ heap = <<w_at_call, w_at_call>>
        /\ w = [id |-> 2, v |-> <<>>]
        /\ b = b_in
        /\ i = p
        /\ ceil = Cadence(num_iters)
        /\ J_history = IF p = 0 THEN <<>>
                       ELSE <<[cost |-> cost0, times |-> Min(p, HistoryCap)]>>
        /\ p_history = <<>>
        /\ stdout = [j \in 1..(IF p = 0 THEN 0 ELSE ((p - 1) \div Cadence(num_iters)) + 1) |->
                        <<(j - 1) * Cadence(num_iters), cost0>>]
        /\ evaluated = IF p = 0 THEN {} ELSE {"sigmoid", "zeta"}
        /\ ret = [fn |-> "none"]
        /\ pc = "loop"

ZeroRateLogisticShape ==
    (variant = "Logistic_R" /\ alpha = R(0) /\ pc = "loop") => LogisticAfter(i)

LongInit ==
    \E m \in 1..MaxM, n \in 1..MaxN, s \in 0..1, t \in 0..1, c \in 0..1, bb \in 0..1,
       k \in (HistoryCap - LongBack)..(HistoryCap + LongOver) :
        /\ InputsInit("Logistic_R", 2, m, n, s, t, c, bb, 0, k, "compute_model",
                      "zeta", "sigmoid", "ndarray", 1)
        /\ LogisticAfter(HistoryCap - LongBack)

LongNext == Logistic_pass \/ Logistic_return

SpecLong == LongInit /\ [][LongNext]_vars

(***************************************************************************)
(* Properties.                                                             *)
(***************************************************************************)

\* the sum over the examples of residual * feature j
RECURSIVE FeatureSum(_, _, _, _)
FeatureSum(data, err, j, k) ==
    IF k = 0 THEN R(0)
    ELSE RAdd(FeatureSum(data, err, j, k - 1), RMul(err[k], R(data.rows[k][j])))

\* component j of d_weight is (1/m) * sum_i (prediction_i - target_i) * x[i][j],
\* d_bias is (1/m) * sum_i (prediction_i - target_i)
PerFeatureGradient(data, targets, weight, bias, stage) ==
    LET m == Rows(data)
        err == Residual(ApplyModel(stage, data, weight, bias), targets)
    IN  [dj_dw |-> Tup([j \in 1..Cols(data) |-> RDiv(FeatureSum(data, err, j, m), R(m))],
                       Cols(data)),
         dj_db |-> RDiv(SumTo(err, m), R(m))]

\* C1: compute_gradient of General_LR returns the per-feature gradient: component
\* j of d_weight is the mean over the examples of residual * x[i][j], and d_bias
\* is the mean residual.
C1_GradientPerFeature ==
    ret.fn = "compute_gradient"
        => ret.out = PerFeatureGradient(x, y, Deref(w_in), b_in, model)

\* what a recorded (weight, bias) entry shows when it is read with the ndarray
\* contents h
SnapshotOf(entry, h) ==
    <<IF entry[1].id = 0 THEN entry[1].v ELSE h[entry[1].id], entry[2]>>

\* C2: an entry of the parameter history of a linear optimizer, once recorded,
\* is not changed by a later iteration: it keeps showing the (weight, bias) it
\* showed when it was appended.
C2_SnapshotsKept ==
    [][\A k \in DOMAIN p_history :
          SnapshotOf(p_history'[k], heap') = SnapshotOf(p_history[k], heap)]_vars

\* C3: for every num_iters >= 0, 0 included, the progress-reporting step of an
\* optimizer never fails: no run ends in the ZeroDivisionError of i % ceil.
C3_ReportingNeverFails == pc # "raised"

\* C4: in the linear optimizers the cost history and the parameter history have
\* one entry per pass done (i entries when pass i is next, so i + 1 entries
\* right after pass i), and num_iters + 1 entries when the run returns.
C4_LinearHistoryLength ==
    variant \in LinearVariants =>
        /\ pc = "loop" => CostLen(J_history) = i /\ Len(p_history) = i
        /\ pc = "raised" => CostLen(J_history) = i + 1 /\ Len(p_history) = i + 1
        /\ pc = "returned" => /\ CostLen(J_history) = num_iters + 1
                              /\ Len(p_history) = num_iters + 1

C4_Witness ==
    /\ variant \in LinearVariants /\ pc = "returned"
    /\ num_iters = MaxIters
    /\ CostLen(J_history) = MaxIters + 1 /\ Len(p_history) = MaxIters + 1

\* C5, as the code has it: the cost history of the logistic optimizer has one
\* entry per completed iteration up to the cap of 100000 entries, so a run of
\* num_iters iterations returns min(num_iters, 100000) entries.
C5_CostHistoryCapped ==
    variant = "Logistic_R" =>
        /\ pc = "loop" => CostLen(J_history) = Min(i, HistoryCap)
        /\ pc = "returned" => CostLen(J_history) = Min(num_iters, HistoryCap)

\* C5, as it is stated: for every num_iters >= 0 the returned cost history of the
\* logistic optimizer has exactly num_iters entries.
C5_CostHistoryPerIteration ==
    (variant = "Logistic_R" /\ pc = "returned") => CostLen(J_history) = num_iters

C5_Witness ==
    /\ variant = "Logistic_R" /\ pc = "returned"
    /\ num_iters > HistoryCap
    /\ CostLen(J_history) = HistoryCap

\* C6: the prediction stages a run evaluates are the ones injected into the
\* optimizer call (model for a linear optimizer, Z and S for the logistic one);
\* a run given an alternate stage never evaluates the default one.
C6_InjectedStageUsed ==
    evaluated \subseteq (IF variant \in LinearVariants THEN {model} ELSE {Z, S})

\* C7: with alpha = 0 the (weight, bias) the optimizer holds after the entry, after
\* every pass and at the return is the initial (weight, bias), in all four
\* optimizers.
C7_ZeroRateKeepsParameters ==
    (alpha = R(0) /\ pc # "ready") => (Deref(w) = w_at_call /\ b = b_in)

C7_Witness ==
    /\ alpha = R(0) /\ pc = "returned"
    /\ num_iters = MaxIters /\ i >= MaxIters
    /\ Cols(x) = MaxN /\ Rows(x) = MaxM
    /\ Deref(w) = w_at_call /\ b = b_in

\* C8: compute_gradient_reg called with lambda_ = 0 returns the (d_weight, d_bias)
\* that compute_gradient of General_LR returns on the same arguments.
C8_RegGradientAtZeroIsPlain ==
    (ret.fn = "compute_gradient_reg" /\ lambda_ = R(0))
        => ret.out = General_compute_gradient(x, y, Deref(w_in), b_in, model)

\* (lambda / 2m) * the sum of the squared weight components
L2Penalty(data, weight, lam) ==
    RMul(RDiv(lam, R(2 * Rows(data))), SumSquares(weight, Len(weight)))

\* C9: compute_cost_reg returns the plain cost of compute_cost plus the penalty
\* (lambda / 2m) * sum_j w_j^2, which has no bias term; with lambda_ = 0 it
\* returns exactly the plain cost.
C9_RegCostIsPlainPlusPenalty ==
    ret.fn = "compute_cost_reg" =>
        /\ ret.out = RAdd(General_compute_cost(x, y, Deref(w_in), b_in, model),
                          L2Penalty(x, Deref(w_in), lambda_))
        /\ lambda_ = R(0)
               => ret.out = General_compute_cost(x, y, Deref(w_in), b_in, model)

C9_Witness ==
    /\ ret.fn = "compute_cost_reg" /\ lambda_ = R(0)
    /\ x.ndim = 2 /\ Cols(x) = MaxN
    /\ SumSquares(Deref(w_in), Len(Deref(w_in))) # R(0)
    /\ ret.out = General_compute_cost(x, y, Deref(w_in), b_in, model)

\* C10: a run never modifies the caller's initial weight object: at every point
\* of a run of any of the four optimizers it holds the contents it had when the
\* call was made.
C10_CallerWeightKept == Deref(w_in) = w_at_call

====
